---- MODULE Spec2Model ----
(***************************************************************************)
(* Advent2022: the start-of-packet scanner of day 06, the tree grid of day *)
(* 08 (parsing, visible_trees, highest_scenic_score), the scoring of day   *)
(* 02, get_common_item of day 03, the range tests of day 04, the crate     *)
(* mover of day 05 and the directory sizes of day 07.                      *)
(*                                                                         *)
(* A Rust Vec v is modelled as the sequence whose element k + 1 is v[k]:   *)
(* At(v, k) reads v[k], so that the index arithmetic of the source         *)
(* (i - width, i % width, ...) is kept verbatim.                           *)
(***************************************************************************)
EXTENDS Integers, Sequences, FiniteSets

VARIABLES
    \* ---- day 06: find_start_of_packet::<WINDOW_SIZE>(string)
    string,        \* the input, a sequence of bytes
    WINDOW_SIZE,   \* the const generic parameter
    pc6,           \* position in find_start_of_packet
    window,        \* the VecDeque of masks
    checksum,      \* the running XOR
    consumed,      \* how many items `iter` has yielded so far
    enum_i,        \* the index .enumerate() attaches to the checksum under test
    ret6,          \* what the call produced: index, or PANIC
    \* ---- day 08: main, TreeGrid::from_str, visible_trees, highest_scenic_score
    input,         \* the text read from the input file, a sequence of bytes
    pc8,           \* position in main
    tree_grid,     \* the parsed TreeGrid: [heights, width]
    first_pass,    \* visible_trees' vector of (visible, tallest, tallest) when it ends
    ret_visible,   \* what visible_trees produced: count, or PANIC
    views,         \* highest_scenic_score's vector of ViewDirections when it ends
    ret_score,     \* what highest_scenic_score produced: score, or PANIC
    sweep_i,       \* the index the sweep of highest_scenic_score is at
    reads,         \* the reads of views[j].in_dir(D) made for the index last swept
    \* ---- day 02: main, score_shape, score_win
    pc2,           \* position in main
    score,         \* the scoring function the mode selects
    round,         \* the inputs <<p1, p2>> of the line last read
    round_score,   \* what score(p1, p2) produced for it, or PANIC
    total_score,   \* the running sum
    \* ---- day 03: get_common_item::<NUM_SACKS>(sacks)
    pc3,           \* position in get_common_item
    sacks_arg,     \* the argument: NUM_SACKS byte slices
    sacks,         \* the sorted copies
    sack_iters,    \* how many items each sack's iterator has yielded
    sack_tops,     \* the item of each sack under consideration
    ret3,          \* what the call produced: the item, or PANIC
    \* ---- day 04: main, Assignments::overlaps_entirely, overlaps_partially
    pc4,           \* position in main
    mode4,         \* Mode::Entire or Mode::Partial
    assignment,    \* the Assignments of the line last read
    overlapped,    \* what the test said of it
    overlaps,      \* the running count
    \* ---- day 05: simulate::<REVERSE>(lines, stacks)
    pc5,           \* position in simulate
    REVERSE,       \* the const generic parameter
    stacks,        \* the Vec of VecDeques, bottom crate first
    command,       \* the Command last parsed
    ret5,          \* what collecting the returned iterator produced: the tops,
                   \* <<PANIC>> for a panic, <<>> before
    \* ---- day 07: total_size, smallest_deletable_dir
    pc7,           \* position in the function
    mode7,         \* Mode::SmallDirSize or Mode::FreeSpace
    listings,      \* the Listings parsed so far
    dir_sizes,     \* the stack of sizes of the open directories
    sum,           \* total_size's running sum
    all_dir_sizes, \* smallest_deletable_dir's post-order list
    ret7           \* what the call produced: a size, or PANIC

vars2 == <<pc2, score, round, round_score, total_score>>
vars3 == <<pc3, sacks_arg, sacks, sack_iters, sack_tops, ret3>>
vars4 == <<pc4, mode4, assignment, overlapped, overlaps>>
vars5 == <<pc5, REVERSE, stacks, command, ret5>>
vars6 == <<string, WINDOW_SIZE, pc6, window, checksum, consumed, enum_i, ret6>>
vars7 == <<pc7, mode7, listings, dir_sizes, sum, all_dir_sizes, ret7>>
vars8 == <<input, pc8, tree_grid, first_pass, ret_visible, views, ret_score, sweep_i, reads>>
vars == <<vars2, vars3, vars4, vars5, vars6, vars7, vars8>>

\* The state of the other programs, which a program leaves alone.
rest2 == <<vars3, vars4, vars5, vars6, vars7, vars8>>
rest3 == <<vars2, vars4, vars5, vars6, vars7, vars8>>
rest4 == <<vars2, vars3, vars5, vars6, vars7, vars8>>
rest5 == <<vars2, vars3, vars4, vars6, vars7, vars8>>
rest6 == <<vars2, vars3, vars4, vars5, vars7, vars8>>
rest7 == <<vars2, vars3, vars4, vars5, vars6, vars8>>
rest8 == <<vars2, vars3, vars4, vars5, vars6, vars7>>

(***************************************************************************)
(* Bounds of the model.                                                    *)
(***************************************************************************)
NumLetters == 3
MaxLen == 5
MaxWindow == 3
MaxWidth == 4
MaxRows == 3
MaxCells == 9
MaxHeight == 1
MaxUniformSide == 5
MaxUniformHeight == 9
MaxText == 4
MaxSweepSide == 4
MaxSweepCells == 6
MaxSweepHeight == 2
MaxPlay == 3
MaxTotalScore == 12
MaxSection == 3
MaxOverlaps == 2
NumItems == 2
MaxSack == 2
NumCrates == 3
MaxStacks == 3
MaxListings == 5

\* Option::None for numeric options, and the outcome of a panicking call.
None == -1
PANIC == -2

\* b'a'
ByteA == 97

Letters == ByteA .. (ByteA + NumLetters - 1)

Min(a, b) == IF a < b THEN a ELSE b
Max(a, b) == IF a > b THEN a ELSE b

(***************************************************************************)
(* u32 arithmetic used by day 06.                                          *)
(***************************************************************************)
RECURSIVE Pow2(_)
Pow2(n) == IF n = 0 THEN 1 ELSE 2 * Pow2(n - 1)

\* a ^ b on u32
RECURSIVE BitXor(_, _)
BitXor(a, b) ==
    IF a = 0 THEN b
    ELSE IF b = 0 THEN a
    ELSE (((a % 2) + (b % 2)) % 2) + (2 * BitXor(a \div 2, b \div 2))

\* u32::count_ones
RECURSIVE count_ones(_)
count_ones(x) == IF x = 0 THEN 0 ELSE (x % 2) + count_ones(x \div 2)

\* A plausible slip: the letter's index is used as the mask, without the shift.
convert_bits_noshift(c) == c - ByteA + 1

\* fn convert_bits(c: u8) -> u32 { 1 << (c - b'a') }
convert_bits(c) == Pow2(c - ByteA)

\* The accumulator of .reduce(|acc, c| acc ^ c) after the first n masks, n >= 1
RECURSIVE XorFold(_, _)
XorFold(ms, n) == IF n = 1 THEN ms[1] ELSE BitXor(XorFold(ms, n - 1), ms[n])

\* .reduce(|acc, c| acc ^ c) over a non-empty sequence of masks
ReduceXor(ms) == XorFold(ms, Len(ms))

\* string.as_bytes().iter().map(|c| convert_bits(*c)), items from..to (1-based)
Masks(s, from, to) == [k \in 1 .. (to - from + 1) |-> convert_bits(s[from + k - 1])]

\* The predicate of .find(): checksum.count_ones() == WINDOW_SIZE
IsMarkerChecksum(cs, W) == count_ones(cs) = W

\* A plausible slip: the enumerate index is returned as it is.
ReturnIndex_nowindow(i, W) == i

\* i + WINDOW_SIZE
ReturnIndex(i, W) == i + W

(***************************************************************************)
(* find_start_of_packet, one action per step of the iterator chain.        *)
(***************************************************************************)

\* Lines 46-55 on an empty string: take(W).reduce(..) is None, unwrap panics.
FillEmpty ==
    /\ pc6 = "fill"
    /\ Len(string) = 0
    /\ pc6' = "done"
    /\ ret6' = PANIC
    /\ UNCHANGED <<string, WINDOW_SIZE, window, checksum, consumed, enum_i>>
    /\ UNCHANGED rest6

\* Lines 46-55: the window and the first checksum from the first W items
\* (fewer, when the string is shorter).
Fill ==
    /\ pc6 = "fill"
    /\ Len(string) > 0
    /\ LET n == Min(WINDOW_SIZE, Len(string))
       IN /\ window' = Masks(string, 1, n)
          /\ checksum' = ReduceXor(Masks(string, 1, n))
          /\ consumed' = n
    /\ enum_i' = 0
    /\ pc6' = "test"
    /\ UNCHANGED <<string, WINDOW_SIZE, ret6>>
    /\ UNCHANGED rest6

\* Line 71, the checksum under test matches: find returns it, line 75 returns.
Found ==
    /\ pc6 = "test"
    /\ IsMarkerChecksum(checksum, WINDOW_SIZE)
    /\ ret6' = ReturnIndex(enum_i, WINDOW_SIZE)
    /\ pc6' = "done"
    /\ UNCHANGED <<string, WINDOW_SIZE, window, checksum, consumed, enum_i>>
    /\ UNCHANGED rest6

\* Line 71, no match: find asks the chain for the next item.
NoMatch ==
    /\ pc6 = "test"
    /\ ~IsMarkerChecksum(checksum, WINDOW_SIZE)
    /\ pc6' = "next"
    /\ UNCHANGED <<string, WINDOW_SIZE, window, checksum, consumed, enum_i, ret6>>
    /\ UNCHANGED rest6

\* A plausible slip: the symbol leaving the window is not XORed out.
Slide_noremove ==
    /\ pc6 = "next"
    /\ consumed < Len(string)
    /\ LET c == convert_bits(string[consumed + 1])
           pushed == Append(window, c)
       IN /\ window' = Tail(pushed)
          /\ checksum' = BitXor(checksum, c)
    /\ consumed' = consumed + 1
    /\ enum_i' = enum_i + 1
    /\ pc6' = "test"
    /\ UNCHANGED <<string, WINDOW_SIZE, ret6>>
    /\ UNCHANGED rest6

\* Lines 62-67: the scan closure on the next item of iter.
Slide ==
    /\ pc6 = "next"
    /\ consumed < Len(string)
    /\ LET c == convert_bits(string[consumed + 1])
           pushed == Append(window, c)
           remove == Head(pushed)
       IN /\ window' = Tail(pushed)
          /\ checksum' = BitXor(checksum, BitXor(remove, c))
    /\ consumed' = consumed + 1
    /\ enum_i' = enum_i + 1
    /\ pc6' = "test"
    /\ UNCHANGED <<string, WINDOW_SIZE, ret6>>
    /\ UNCHANGED rest6

\* A plausible slip: exhaustion falls back to a default item instead of failing.
Exhausted_default ==
    /\ pc6 = "next"
    /\ consumed = Len(string)
    /\ ret6' = ReturnIndex(0, WINDOW_SIZE)
    /\ pc6' = "done"
    /\ UNCHANGED <<string, WINDOW_SIZE, window, checksum, consumed, enum_i>>
    /\ UNCHANGED rest6

\* Line 72: iter is exhausted, find returns None, unwrap panics.
Exhausted ==
    /\ pc6 = "next"
    /\ consumed = Len(string)
    /\ ret6' = PANIC
    /\ pc6' = "done"
    /\ UNCHANGED <<string, WINDOW_SIZE, window, checksum, consumed, enum_i>>
    /\ UNCHANGED rest6

Strings == UNION {[1 .. n -> Letters] : n \in 0 .. MaxLen}

\* The day 06 program before it is called / the day 08 program before it is run.
Idle6 ==
    /\ string = <<>>
    /\ WINDOW_SIZE = 0
    /\ pc6 = "idle"
    /\ window = <<>>
    /\ checksum = 0
    /\ consumed = 0
    /\ enum_i = 0
    /\ ret6 = None

Idle8 ==
    /\ input = <<>>
    /\ pc8 = "idle"
    /\ tree_grid = [heights |-> <<>>, width |-> 0]
    /\ first_pass = <<>>
    /\ ret_visible = None
    /\ views = <<>>
    /\ ret_score = None
    /\ sweep_i = 0
    /\ reads = {}

Idle2 ==
    /\ pc2 = "idle"
    /\ score = "score_shape"
    /\ round = <<0, 0>>
    /\ round_score = None
    /\ total_score = 0

Idle3 ==
    /\ pc3 = "idle"
    /\ sacks_arg = <<>>
    /\ sacks = <<>>
    /\ sack_iters = <<>>
    /\ sack_tops = <<>>
    /\ ret3 = None

Idle4 ==
    /\ pc4 = "idle"
    /\ mode4 = "Entire"
    /\ assignment = <<>>
    /\ overlapped = FALSE
    /\ overlaps = 0

Idle5 ==
    /\ pc5 = "idle"
    /\ REVERSE = FALSE
    /\ stacks = <<>>
    /\ command = [num_moved |-> 0, stack_from |-> 0, stack_to |-> 0]
    /\ ret5 = <<>>

Idle7 ==
    /\ pc7 = "idle"
    /\ mode7 = "SmallDirSize"
    /\ listings = <<>>
    /\ dir_sizes = <<>>
    /\ sum = 0
    /\ all_dir_sizes = <<>>
    /\ ret7 = None

Init6 ==
    /\ string \in Strings
    /\ WINDOW_SIZE \in 1 .. MaxWindow
    /\ pc6 = "fill"
    /\ window = <<>>
    /\ checksum = 0
    /\ consumed = 0
    /\ enum_i = 0
    /\ ret6 = None
    /\ Idle2 /\ Idle3 /\ Idle4 /\ Idle5 /\ Idle7 /\ Idle8

Next6 == FillEmpty \/ Fill \/ Found \/ NoMatch \/ Slide \/ Exhausted

SpecPacket == Init6 /\ [][Next6]_vars

(***************************************************************************)
(* Day 08: TreeGrid and part1::visible_trees.                              *)
(***************************************************************************)

\* v.len() and v[k] of a Vec
VecLen(v) == Len(v)
At(v, k) == v[k + 1]

GridLen(g) == VecLen(g.heights)

\* get_many_mut(idxs).unwrap() succeeds: every index in bounds (and not below
\* zero, where the usize subtraction itself fails), no index twice.
GetManyOk(idxs, len) ==
    /\ \A k \in 1 .. Len(idxs) : idxs[k] >= 0 /\ idxs[k] < len
    /\ \A k, l \in 1 .. Len(idxs) : k # l => idxs[k] # idxs[l]

\* Lines 71-76 and 114-119 reach `i % tree_grid.width` with a width of zero.
EdgeTestPanics(i, len, width) ==
    /\ width = 0
    /\ ~(i = 0 \/ i = len \/ i < width \/ i + width > len)

\* A plausible slip: the test for the right-hand column is left out.
IsEdge_noright(i, len, width) ==
    \/ i = 0
    \/ i = len
    \/ i < width
    \/ i + width > len
    \/ (i % width) = 0

\* Lines 71-76 and 114-119: the edge test of both passes.
IsEdge(i, len, width) ==
    \/ i = 0
    \/ i = len
    \/ i < width
    \/ i + width > len
    \/ (i % width) = 0
    \/ (i % width) = width - 1

\* A plausible slip: a tree of equal height does not hide this one.
Taller_orequal(height, tallest) == height >= tallest

\* Lines 92 and 130: `height > above.1`, `height > left.2`, ...
Taller(height, tallest) == height > tallest

\* Lines 60-64: (false, *height, *height) for every tree.
InitialPass(g) ==
    [k \in 1 .. GridLen(g) |-> [f0 |-> FALSE, f1 |-> g.heights[k], f2 |-> g.heights[k]]]

\* Lines 102-108: .1 and .2 are set back to the tree's own height.
ResetPass(cells, g) ==
    [k \in 1 .. GridLen(g) |-> [f0 |-> cells[k].f0, f1 |-> g.heights[k], f2 |-> g.heights[k]]]

\* The body the two passes share, with the two neighbours each one reads:
\* (above, left) in lines 82-95, (below, right) in lines 123-132.
PassCell(acc, g, i, vertical, horizontal) ==
    LET len == GridLen(g)
        cells == acc.cells
    IN IF acc.panic THEN acc
       ELSE IF EdgeTestPanics(i, len, g.width) THEN [acc EXCEPT !.panic = TRUE]
       ELSE IF IsEdge(i, len, g.width)
            THEN [acc EXCEPT !.cells[i + 1].f0 = TRUE]
       ELSE IF ~GetManyOk(<<vertical, horizontal, i>>, len)
            THEN [acc EXCEPT !.panic = TRUE]
       ELSE LET height == At(cells, i).f1
            IN [acc EXCEPT !.cells[i + 1] =
                    [f0 |-> \/ At(cells, i).f0
                            \/ Taller(height, At(cells, vertical).f1)
                            \/ Taller(height, At(cells, horizontal).f2),
                     f1 |-> Max(height, At(cells, vertical).f1),
                     f2 |-> Max(height, At(cells, horizontal).f2)]]

\* Lines 69-97, one index of (0..first_pass.len()).for_each
ForwardCell(acc, g, i) == PassCell(acc, g, i, i - g.width, i - 1)

\* Lines 113-134, one index of (0..first_pass.len()).rev().for_each
ReverseCell(acc, g, i) == PassCell(acc, g, i, i + g.width, i + 1)

RECURSIVE ForwardPass(_, _, _)
ForwardPass(acc, g, i) ==
    IF acc.panic \/ i >= GridLen(g) THEN acc ELSE ForwardPass(ForwardCell(acc, g, i), g, i + 1)

RECURSIVE ReversePass(_, _, _)
ReversePass(acc, g, i) ==
    IF acc.panic \/ i < 0 THEN acc ELSE ReversePass(ReverseCell(acc, g, i), g, i - 1)

\* Line 137: first_pass.iter().filter(|(vis, _, _)| *vis).count()
CountVisible(cells) == Cardinality({k \in 0 .. (VecLen(cells) - 1) : At(cells, k).f0})

\* Lines 102-108 on the state the forward pass left.
ResetAcc(acc, g) == [cells |-> ResetPass(acc.cells, g), panic |-> acc.panic]

\* part1::visible_trees: [cells, panic] when it ends.
visible_trees(g) ==
    ReversePass(ResetAcc(ForwardPass([cells |-> InitialPass(g), panic |-> FALSE], g, 0), g),
                g, GridLen(g) - 1)

(***************************************************************************)
(* Day 08: part2::highest_scenic_score.                                    *)
(***************************************************************************)

\* Option<ViewDistance>::None
Unset == [distance |-> None, height |-> None]

\* ViewDistance::edge()
EdgeView == [distance |-> 0, height |-> None]

\* Lines 252-257
NoViews == [above |-> Unset, left |-> Unset, right |-> Unset, below |-> Unset]

\* A plausible slip: Above steps by cells instead of by rows.
offset_nowidth(direction, width, idx, mult) ==
    CASE direction = "Above" -> idx - mult
      [] direction = "Left" -> idx - mult
      [] direction = "Right" -> idx + mult
      [] direction = "Below" -> idx + (mult * width)

\* Direction::offset. Above and Below carry the width.
offset(direction, width, idx, mult) ==
    CASE direction = "Above" -> idx - (mult * width)
      [] direction = "Left" -> idx - mult
      [] direction = "Right" -> idx + mult
      [] direction = "Below" -> idx + (mult * width)

\* ViewDirections::in_dir
in_dir(v, direction) ==
    CASE direction = "Above" -> v.above
      [] direction = "Left" -> v.left
      [] direction = "Right" -> v.right
      [] direction = "Below" -> v.below

\* tree_grid.heights.get(j).copied(): None out of bounds. A usize below zero
\* does not exist: the subtraction in offset fails first.
HeightsGet(g, j) == IF j >= 0 /\ j < GridLen(g) THEN At(g.heights, j) ELSE None

\* A plausible slip: sight also passes a tree of equal height.
LooksPast_orequal(view_height, height) == view_height <= height

\* Line 226: `view_height < height`
LooksPast(view_height, height) == view_height < height

\* A plausible slip: each round of the loop adds one step instead of the
\* distance seen from the tree looked at.
RECURSIVE ViewLoop_stepone(_, _, _, _, _, _)
ViewLoop_stepone(vs, g, idx, direction, distance, maybe_view_height) ==
    IF maybe_view_height # None /\ maybe_view_height < At(g.heights, idx)
    THEN LET j == offset(direction, g.width, idx, distance)
         IN IF j < 0 \/ j >= VecLen(vs) \/ in_dir(At(vs, j), direction) = Unset
            THEN [distance |-> distance, height |-> maybe_view_height, panic |-> TRUE]
            ELSE ViewLoop_stepone(vs, g, idx, direction,
                                  distance + 1, in_dir(At(vs, j), direction).height)
    ELSE [distance |-> distance, height |-> maybe_view_height, panic |-> FALSE]

\* Lines 226-238, the while loop. A read of a view that is out of bounds or
\* not yet computed (unwrap of None) panics.
RECURSIVE ViewLoop(_, _, _, _, _, _)
ViewLoop(vs, g, idx, direction, distance, maybe_view_height) ==
    IF maybe_view_height # None /\ LooksPast(maybe_view_height, At(g.heights, idx))
    THEN LET j == offset(direction, g.width, idx, distance)
         IN IF j < 0 \/ j >= VecLen(vs) \/ in_dir(At(vs, j), direction) = Unset
            THEN [distance |-> distance, height |-> maybe_view_height, panic |-> TRUE]
            ELSE LET view == in_dir(At(vs, j), direction)
                 IN ViewLoop(vs, g, idx, direction,
                             distance + view.distance, view.height)
    ELSE [distance |-> distance, height |-> maybe_view_height, panic |-> FALSE]

\* A plausible slip: the view of the neighbour is added once and the height
\* of what blocks the neighbour is not looked at again.
find_view_distance_once(vs, g, idx, direction) ==
    LET j == offset(direction, g.width, idx, 1)
        neighbour == HeightsGet(g, j)
    IN IF j < 0 THEN [distance |-> 0, height |-> None, panic |-> TRUE]
       ELSE IF neighbour = None THEN [distance |-> 0, height |-> None, panic |-> FALSE]
       ELSE IF ~LooksPast(neighbour, At(g.heights, idx))
            THEN [distance |-> 1, height |-> neighbour, panic |-> FALSE]
       ELSE [distance |-> 1 + in_dir(At(vs, j), direction).distance,
             height |-> in_dir(At(vs, j), direction).height,
             panic |-> FALSE]

\* part2::find_view_distance: [distance, height] and whether the call panicked.
find_view_distance(vs, g, idx, direction) ==
    LET j == offset(direction, g.width, idx, 1)
        maybe_view_height == HeightsGet(g, j)
        distance == IF maybe_view_height # None THEN 1 ELSE 0
    IN IF j < 0 THEN [distance |-> 0, height |-> None, panic |-> TRUE]
       ELSE ViewLoop(vs, g, idx, direction, distance, maybe_view_height)

\* A plausible slip: the left-hand column is not told from the inside.
ForwardBranch_noleft(i, width) ==
    IF i = 0 THEN "corner"
    ELSE IF i < width THEN "top"
    ELSE "inside"

\* Lines 265-285: which branch the forward sweep takes.
ForwardBranch(i, width) ==
    IF i = 0 THEN "corner"
    ELSE IF i < width THEN "top"
    ELSE IF i % width = 0 THEN "left"
    ELSE "inside"

\* Lines 300-320: which branch the reverse sweep takes.
ReverseBranch(i, len, width) ==
    IF i = len THEN "corner"
    ELSE IF i + width > len THEN "bottom"
    ELSE IF i % width = width - 1 THEN "right"
    ELSE "inside"

\* views[i].<field> = Some(found), unless the call that found it panicked.
StoreView(acc, i, direction, found) ==
    IF found.panic THEN [acc EXCEPT !.panic = TRUE]
    ELSE CASE direction = "Above" ->
                [acc EXCEPT !.views[i + 1].above = [distance |-> found.distance, height |-> found.height]]
           [] direction = "Left" ->
                [acc EXCEPT !.views[i + 1].left = [distance |-> found.distance, height |-> found.height]]
           [] direction = "Right" ->
                [acc EXCEPT !.views[i + 1].right = [distance |-> found.distance, height |-> found.height]]
           [] direction = "Below" ->
                [acc EXCEPT !.views[i + 1].below = [distance |-> found.distance, height |-> found.height]]

\* views[i].<field> = Some(<ViewDistance::edge() or find_view_distance(..)>)
SetView(acc, g, i, direction, is_edge) ==
    IF acc.panic THEN acc
    ELSE StoreView(acc, i, direction,
                   IF is_edge THEN [distance |-> 0, height |-> None, panic |-> FALSE]
                   ELSE find_view_distance(acc.views, g, i, direction))

\* Lines 263-294, one index of the forward sweep.
ForwardView(acc, g, i) ==
    IF acc.panic THEN acc
    ELSE IF g.width = 0 /\ i # 0 THEN [acc EXCEPT !.panic = TRUE]
    ELSE LET branch == ForwardBranch(i, g.width)
         IN SetView(SetView(acc, g, i, "Above", branch \in {"corner", "top"}),
                    g, i, "Left", branch \in {"corner", "left"})

\* Lines 298-329, one index of the reverse sweep.
ReverseView(acc, g, i) ==
    IF acc.panic THEN acc
    ELSE IF g.width = 0 /\ i # VecLen(acc.views) THEN [acc EXCEPT !.panic = TRUE]
    ELSE LET branch == ReverseBranch(i, VecLen(acc.views), g.width)
         IN SetView(SetView(acc, g, i, "Right", branch \in {"corner", "right"}),
                    g, i, "Below", branch \in {"corner", "bottom"})

RECURSIVE ForwardSweep(_, _, _)
ForwardSweep(acc, g, i) ==
    IF acc.panic \/ i >= GridLen(g) THEN acc ELSE ForwardSweep(ForwardView(acc, g, i), g, i + 1)

RECURSIVE ReverseSweep(_, _, _)
ReverseSweep(acc, g, i) ==
    IF acc.panic \/ i < 0 THEN acc ELSE ReverseSweep(ReverseView(acc, g, i), g, i - 1)

\* Lines 335-338: the product of the four distances of one tree.
ScenicScore(v) == v.above.distance * v.below.distance * v.left.distance * v.right.distance

RECURSIVE MaxOf(_)
MaxOf(S) == LET x == CHOOSE x \in S : TRUE
            IN IF S = {x} THEN x ELSE Max(x, MaxOf(S \ {x}))

\* part2::highest_scenic_score: [views, panic, score] when it ends. The max of
\* no trees is None, and its unwrap panics.
MaxScore(acc) ==
    IF acc.panic \/ VecLen(acc.views) = 0
    THEN [views |-> acc.views, panic |-> TRUE, score |-> PANIC]
    ELSE [views |-> acc.views, panic |-> FALSE,
          score |-> MaxOf({ScenicScore(At(acc.views, k)) : k \in 0 .. (VecLen(acc.views) - 1)})]

highest_scenic_score(g) ==
    MaxScore(ReverseSweep(
                 ForwardSweep([views |-> [k \in 1 .. GridLen(g) |-> NoViews], panic |-> FALSE], g, 0),
                 g, GridLen(g) - 1))

(***************************************************************************)
(* Day 08: main. After a successful parse it runs one of the two modes.    *)
(***************************************************************************)

\* What visible_trees leaves and returns.
VisibleResult(r) ==
    /\ first_pass' = r.cells
    /\ ret_visible' = IF r.panic THEN PANIC ELSE CountVisible(r.cells)

\* What highest_scenic_score leaves and returns.
ScenicResult(r) ==
    /\ views' = r.views
    /\ ret_score' = r.score

\* Line 356: Mode::NumVisible
VisibleTrees ==
    /\ pc8 = "start"
    /\ VisibleResult(visible_trees(tree_grid))
    /\ pc8' = "visible_done"
    /\ UNCHANGED <<input, tree_grid, views, ret_score, sweep_i, reads>>
    /\ UNCHANGED rest8

\* Line 357: Mode::ScenicScore
HighestScenicScore ==
    /\ pc8 = "start"
    /\ ScenicResult(highest_scenic_score(tree_grid))
    /\ pc8' = "scenic_done"
    /\ UNCHANGED <<input, tree_grid, first_pass, ret_visible, sweep_i, reads>>
    /\ UNCHANGED rest8

\* The rectangular grids of the model: width x rows cells, row-major.
Grids ==
    UNION {[heights : [1 .. (w * r) -> 0 .. MaxHeight], width : {w}] :
           <<w, r>> \in {x \in (1 .. MaxWidth) \X (1 .. MaxRows) : x[1] * x[2] <= MaxCells}}

\* main after the parse of a well-formed grid text.
Init ==
    /\ Idle2 /\ Idle3 /\ Idle4 /\ Idle5 /\ Idle6 /\ Idle7
    /\ sweep_i = 0
    /\ reads = {}
    /\ input = <<>>
    /\ pc8 = "start"
    /\ tree_grid \in Grids
    /\ first_pass = <<>>
    /\ ret_visible = None
    /\ views = <<>>
    /\ ret_score = None

Next == VisibleTrees \/ HighestScenicScore

Spec == Init /\ [][Next]_vars

(***************************************************************************)
(* Day 08: impl FromStr for TreeGrid, and main from the parse on.          *)
(***************************************************************************)

\* b'0', b'\n'
Byte0 == 48
ByteLF == 10

\* The bytes of the model's input texts: '0', '1', '\n', 'a', '#', ' '.
TextBytes == {48, 49, 10, 97, 35, 32}

\* u8::is_ascii_whitespace: space, tab, line feed, form feed, carriage return.
is_ascii_whitespace(c) == c \in {32, 9, 10, 12, 13}

\* s.lines().next(): no line at all in an empty text.
HasFirstLine(s) == Len(s) > 0

\* s.lines().next().len(): the bytes before the first line feed. (No text of
\* the model holds the carriage return that lines() would strip.)
FirstLineLen(s) ==
    IF \E k \in 1 .. Len(s) : s[k] = ByteLF
    THEN (CHOOSE k \in 1 .. Len(s) : s[k] = ByteLF /\ \A l \in 1 .. (k - 1) : s[l] # ByteLF) - 1
    ELSE Len(s)

\* Line 41: .filter(|c| !c.is_ascii_whitespace())
Trees(s) == SelectSeq(s, LAMBDA c : ~is_ascii_whitespace(c))

\* Line 43: c.checked_sub(b'0') is None for a byte below b'0'.
CheckedSubFails(c) == c < Byte0

\* Lines 38-46: the heights, when no checked_sub fails.
ParsedHeights(s) == [k \in 1 .. Len(Trees(s)) |-> Trees(s)[k] - Byte0]

\* Line 36: no first line, from_str returns Err and main returns it.
FromStrNoLines ==
    /\ pc8 = "parse"
    /\ ~HasFirstLine(input)
    /\ pc8' = "err"
    /\ UNCHANGED <<input, tree_grid, first_pass, ret_visible, views, ret_score, sweep_i, reads>>
    /\ UNCHANGED rest8

\* Line 44: a tree below b'0', the closure panics.
FromStrPanic ==
    /\ pc8 = "parse"
    /\ HasFirstLine(input)
    /\ \E k \in 1 .. Len(Trees(input)) : CheckedSubFails(Trees(input)[k])
    /\ pc8' = "panic"
    /\ UNCHANGED <<input, tree_grid, first_pass, ret_visible, views, ret_score, sweep_i, reads>>
    /\ UNCHANGED rest8

\* Lines 37-48: Ok(TreeGrid { heights, width }).
FromStrOk ==
    /\ pc8 = "parse"
    /\ HasFirstLine(input)
    /\ \A k \in 1 .. Len(Trees(input)) : ~CheckedSubFails(Trees(input)[k])
    /\ tree_grid' = [heights |-> ParsedHeights(input), width |-> FirstLineLen(input)]
    /\ pc8' = "start"
    /\ UNCHANGED <<input, first_pass, ret_visible, views, ret_score, sweep_i, reads>>
    /\ UNCHANGED rest8

Texts == UNION {[1 .. n -> TextBytes] : n \in 0 .. MaxText}

\* main with any text in the input file.
InitParse ==
    /\ Idle2 /\ Idle3 /\ Idle4 /\ Idle5 /\ Idle6 /\ Idle7
    /\ sweep_i = 0
    /\ reads = {}
    /\ input \in Texts
    /\ pc8 = "parse"
    /\ tree_grid = [heights |-> <<>>, width |-> 0]
    /\ first_pass = <<>>
    /\ ret_visible = None
    /\ views = <<>>
    /\ ret_score = None

NextParse == FromStrNoLines \/ FromStrPanic \/ FromStrOk \/ VisibleTrees \/ HighestScenicScore

SpecParse == InitParse /\ [][NextParse]_vars

\* Grids in which every tree has the same height, three or more trees a side.
UniformGrids ==
    {[heights |-> [k \in 1 .. (x[1] * x[2]) |-> x[3]], width |-> x[1]] :
     x \in (3 .. MaxUniformSide) \X (3 .. MaxUniformSide) \X (0 .. MaxUniformHeight)}

InitUniform ==
    /\ Idle2 /\ Idle3 /\ Idle4 /\ Idle5 /\ Idle6 /\ Idle7
    /\ sweep_i = 0
    /\ reads = {}
    /\ input = <<>>
    /\ pc8 = "start"
    /\ tree_grid \in UniformGrids
    /\ first_pass = <<>>
    /\ ret_visible = None
    /\ views = <<>>
    /\ ret_score = None

SpecUniform == InitUniform /\ [][Next]_vars

(***************************************************************************)
(* Day 08: highest_scenic_score, one action per index of its two sweeps.   *)
(***************************************************************************)

\* Lines 226-238: the reads views[offset(idx, distance)].in_dir(direction)
\* of the while loop, each with whether it found Some (the unwrap succeeds).
RECURSIVE ViewLoopReads(_, _, _, _, _, _)
ViewLoopReads(vs, g, idx, direction, distance, maybe_view_height) ==
    IF maybe_view_height # None /\ LooksPast(maybe_view_height, At(g.heights, idx))
    THEN LET j == offset(direction, g.width, idx, distance)
             some == j >= 0 /\ j < VecLen(vs) /\ in_dir(At(vs, j), direction) # Unset
             read == [idx |-> idx, direction |-> direction, j |-> j, some |-> some]
         IN IF ~some THEN {read}
            ELSE {read} \cup ViewLoopReads(vs, g, idx, direction,
                                          distance + in_dir(At(vs, j), direction).distance,
                                          in_dir(At(vs, j), direction).height)
    ELSE {}

\* The reads of one call of find_view_distance.
FindReads(vs, g, idx, direction) ==
    LET j == offset(direction, g.width, idx, 1)
        maybe_view_height == HeightsGet(g, j)
    IN IF j < 0 THEN {}
       ELSE ViewLoopReads(vs, g, idx, direction,
                          IF maybe_view_height # None THEN 1 ELSE 0, maybe_view_height)

\* The reads of the two assignments of one index: the second call sees the
\* first one's result stored.
StepReads(acc, g, i, first, first_edge, second, second_edge) ==
    (IF first_edge THEN {} ELSE FindReads(acc.views, g, i, first))
        \cup (IF second_edge \/ SetView(acc, g, i, first, first_edge).panic THEN {}
              ELSE FindReads(SetView(acc, g, i, first, first_edge).views, g, i, second))

\* What one index of a sweep leaves: the views, and the end of the call when
\* a read panicked.
SweepResult(acc, next_i) ==
    IF acc.panic
    THEN /\ pc8' = "scenic_done"
         /\ ret_score' = PANIC
         /\ UNCHANGED <<views, sweep_i>>
    ELSE /\ views' = acc.views
         /\ sweep_i' = next_i
         /\ UNCHANGED <<pc8, ret_score>>

\* Lines 249-258: the views vector, default initialised.
SweepStart ==
    /\ pc8 = "start"
    /\ views' = [k \in 1 .. GridLen(tree_grid) |-> NoViews]
    /\ sweep_i' = 0
    /\ pc8' = "forward"
    /\ UNCHANGED <<input, tree_grid, first_pass, ret_visible, ret_score, reads>>
    /\ UNCHANGED rest8

\* Lines 263-294, the closure on index sweep_i.
ForwardStep ==
    /\ pc8 = "forward"
    /\ sweep_i < VecLen(views)
    /\ SweepResult(ForwardView([views |-> views, panic |-> FALSE], tree_grid, sweep_i),
                   sweep_i + 1)
    /\ reads' = StepReads([views |-> views, panic |-> FALSE], tree_grid, sweep_i,
                          "Above", ForwardBranch(sweep_i, tree_grid.width) \in {"corner", "top"},
                          "Left", ForwardBranch(sweep_i, tree_grid.width) \in {"corner", "left"})
    /\ UNCHANGED <<input, tree_grid, first_pass, ret_visible>>
    /\ UNCHANGED rest8

\* Line 298: the forward range is exhausted, the reversed one starts.
ForwardEnd ==
    /\ pc8 = "forward"
    /\ sweep_i = VecLen(views)
    /\ sweep_i' = VecLen(views) - 1
    /\ pc8' = "reverse"
    /\ reads' = {}
    /\ UNCHANGED <<input, tree_grid, first_pass, ret_visible, views, ret_score>>
    /\ UNCHANGED rest8

\* Lines 298-329, the closure on index sweep_i.
ReverseStep ==
    /\ pc8 = "reverse"
    /\ sweep_i >= 0
    /\ SweepResult(ReverseView([views |-> views, panic |-> FALSE], tree_grid, sweep_i),
                   sweep_i - 1)
    /\ reads' = StepReads([views |-> views, panic |-> FALSE], tree_grid, sweep_i,
                          "Right", ReverseBranch(sweep_i, VecLen(views), tree_grid.width)
                                       \in {"corner", "right"},
                          "Below", ReverseBranch(sweep_i, VecLen(views), tree_grid.width)
                                       \in {"corner", "bottom"})
    /\ UNCHANGED <<input, tree_grid, first_pass, ret_visible>>
    /\ UNCHANGED rest8

\* Lines 331-342: the reversed range is exhausted, the maximum is returned.
SweepEnd ==
    /\ pc8 = "reverse"
    /\ sweep_i < 0
    /\ ret_score' = MaxScore([views |-> views, panic |-> FALSE]).score
    /\ pc8' = "scenic_done"
    /\ reads' = {}
    /\ UNCHANGED <<input, tree_grid, first_pass, ret_visible, views, sweep_i>>
    /\ UNCHANGED rest8

\* The rectangular grids the sweeps are followed on.
SweepGrids ==
    UNION {[heights : [1 .. (w * r) -> 0 .. MaxSweepHeight], width : {w}] :
           <<w, r>> \in {x \in (1 .. MaxSweepSide) \X (1 .. MaxSweepSide) :
                             x[1] * x[2] <= MaxSweepCells}}

InitSweep ==
    /\ Idle2 /\ Idle3 /\ Idle4 /\ Idle5 /\ Idle6 /\ Idle7
    /\ input = <<>>
    /\ pc8 = "start"
    /\ tree_grid \in SweepGrids
    /\ first_pass = <<>>
    /\ ret_visible = None
    /\ views = <<>>
    /\ ret_score = None
    /\ sweep_i = 0
    /\ reads = {}

NextSweep == SweepStart \/ ForwardStep \/ ForwardEnd \/ ReverseStep \/ SweepEnd

SpecSweep == InitSweep /\ [][NextSweep]_vars

(***************************************************************************)
(* Day 02: score_shape, score_win and main.                                *)
(***************************************************************************)

\* i16::rem_euclid, i8::rem_euclid with a positive divisor
rem_euclid(a, n) == ((a % n) + n) % n

\* A plausible slip: the difference is taken the other way round.
score_shape_swapped(p1, p2) ==
    (p2 + 1) + CASE rem_euclid(p2 - p1, 3) = 0 -> 3
                 [] rem_euclid(p2 - p1, 3) = 1 -> 0
                 [] rem_euclid(p2 - p1, 3) = 2 -> 6

\* Lines 33-45
score_shape(p1, p2) ==
    (p2 + 1) + CASE rem_euclid(p1 - p2, 3) = 0 -> 3
                 [] rem_euclid(p1 - p2, 3) = 1 -> 0
                 [] rem_euclid(p1 - p2, 3) = 2 -> 6

\* A plausible slip: the shape is not moved back by one.
score_win_nominus(p1, p2) ==
    IF p1 > 127 \/ p2 > 127 THEN PANIC
    ELSE (p2 * 3) + (rem_euclid(p1 + p2, 3) + 1)

\* Lines 50-60. i8::try_from fails above 127 and the unwrap of re panics.
score_win(p1, p2) ==
    IF p1 > 127 \/ p2 > 127 THEN PANIC
    ELSE (p2 * 3) + (rem_euclid(p1 + (p2 - 1), 3) + 1)

\* Lines 69-72: the function the mode selects, applied.
Score(f, p1, p2) == IF f = "score_shape" THEN score_shape(p1, p2) ELSE score_win(p1, p2)

\* Lines 81-86: one line is scored and added to the sum.
ScoreLine ==
    /\ pc2 = "lines"
    /\ total_score < MaxTotalScore
    /\ \E p1 \in 0 .. MaxPlay, p2 \in 0 .. MaxPlay :
          /\ round' = <<p1, p2>>
          /\ round_score' = Score(score, p1, p2)
          /\ total_score' = total_score + Score(score, p1, p2)
    /\ UNCHANGED <<pc2, score>>
    /\ UNCHANGED rest2

\* Lines 86-88: no line is left, the sum is printed.
PrintTotal ==
    /\ pc2 = "lines"
    /\ pc2' = "done"
    /\ UNCHANGED <<score, round, round_score, total_score>>
    /\ UNCHANGED rest2

\* Lines 63-72
Init2 ==
    /\ pc2 = "lines"
    /\ score \in {"score_shape", "score_win"}
    /\ round = <<0, 0>>
    /\ round_score = None
    /\ total_score = 0
    /\ Idle3 /\ Idle4 /\ Idle5 /\ Idle6 /\ Idle7 /\ Idle8

Next2 == ScoreLine \/ PrintTotal

SpecScore == Init2 /\ [][Next2]_vars

(***************************************************************************)
(* Day 04: Assignments::overlaps_entirely, overlaps_partially and main.    *)
(* An Assignments value is <<<<a0, a1>>, <<b0, b1>>>>.                      *)
(***************************************************************************)

\* A plausible slip: only the first assignment is tested for lying inside
\* the second.
overlaps_entirely_oneway(self) ==
    self[1][1] >= self[2][1] /\ self[1][2] <= self[2][2]

\* Lines 37-40
overlaps_entirely(self) ==
    \/ (self[1][1] >= self[2][1] /\ self[1][2] <= self[2][2])
    \/ (self[1][1] <= self[2][1] /\ self[1][2] >= self[2][2])

\* Lines 43-46
overlaps_partially(self) ==
    ~(\/ (self[1][1] < self[2][1] /\ self[1][2] < self[2][1])
      \/ (self[1][1] > self[2][2] /\ self[1][2] > self[2][2]))

\* Lines 76-79: the test the mode selects, applied.
Overlaps(m, self) ==
    IF m = "Entire" THEN overlaps_entirely(self) ELSE overlaps_partially(self)

\* The pairs of assignments a line can hold, ill-ordered ranges included.
AssignmentPairs ==
    ((0 .. MaxSection) \X (0 .. MaxSection)) \X ((0 .. MaxSection) \X (0 .. MaxSection))

\* Lines 86-90: one line is parsed and tested, a hit is counted.
CountLine ==
    /\ pc4 = "lines"
    /\ overlaps < MaxOverlaps
    /\ \E a \in AssignmentPairs :
          /\ assignment' = a
          /\ overlapped' = Overlaps(mode4, a)
          /\ overlaps' = overlaps + (IF Overlaps(mode4, a) THEN 1 ELSE 0)
    /\ UNCHANGED <<pc4, mode4>>
    /\ UNCHANGED rest4

\* Lines 90-92: no line is left, the count is printed.
PrintOverlaps ==
    /\ pc4 = "lines"
    /\ pc4' = "done"
    /\ UNCHANGED <<mode4, assignment, overlapped, overlaps>>
    /\ UNCHANGED rest4

\* Lines 71-79
Init4 ==
    /\ pc4 = "lines"
    /\ mode4 \in {"Entire", "Partial"}
    /\ assignment = <<>>
    /\ overlapped = FALSE
    /\ overlaps = 0
    /\ Idle2 /\ Idle3 /\ Idle5 /\ Idle6 /\ Idle7 /\ Idle8

Next4 == CountLine \/ PrintOverlaps

SpecOverlap == Init4 /\ [][Next4]_vars

(***************************************************************************)
(* Day 03: get_common_item, one action per round of its loop.              *)
(***************************************************************************)

\* The place of the first least item of a non-empty sack.
FirstLeast(sack) ==
    CHOOSE k \in 1 .. Len(sack) :
        /\ \A l \in 1 .. Len(sack) : sack[k] <= sack[l]
        /\ \A l \in 1 .. (k - 1) : sack[l] # sack[k]

\* A plausible slip: the copies are not sorted.
sort_not(sack) == sack

\* Line 35: sack.sort()
RECURSIVE sort(_)
sort(sack) ==
    IF Len(sack) = 0 THEN <<>>
    ELSE <<sack[FirstLeast(sack)]>>
            \o sort(SubSeq(sack, 1, FirstLeast(sack) - 1)
                        \o SubSeq(sack, FirstLeast(sack) + 1, Len(sack)))

\* Lines 50-61, the closure of the fold: Ok(acc) is [ok |-> TRUE, item],
\* Err((i, min)) is [ok |-> FALSE, i, item]. i counts from 0.
FoldTops(acc, i, top) ==
    IF acc.ok /\ acc.item = top THEN acc
    ELSE IF acc.ok /\ acc.item < top THEN [ok |-> FALSE, i |-> i - 1, item |-> acc.item]
    ELSE IF acc.ok THEN [ok |-> FALSE, i |-> i, item |-> top]
    ELSE IF acc.item < top THEN acc
    ELSE [ok |-> FALSE, i |-> i, item |-> top]

\* Lines 48-62: the fold over sack_tops[1..], started with Ok(sack_tops[0]).
RECURSIVE CompareFrom(_, _, _)
CompareFrom(acc, tops, i) ==
    IF i >= Len(tops) THEN acc
    ELSE CompareFrom(FoldTops(acc, i, tops[i + 1]), tops, i + 1)

CompareTops(tops) == CompareFrom([ok |-> TRUE, i |-> 0, item |-> tops[1]], tops, 1)

\* Lines 33-40 when a sack is empty: iter.next() is None and unwrap panics.
TopOfEmptySack ==
    /\ pc3 = "start"
    /\ \E k \in 1 .. Len(sacks_arg) : Len(sacks_arg[k]) = 0
    /\ sacks' = [k \in 1 .. Len(sacks_arg) |-> sort(sacks_arg[k])]
    /\ ret3' = PANIC
    /\ pc3' = "done"
    /\ UNCHANGED <<sacks_arg, sack_iters, sack_tops>>
    /\ UNCHANGED rest3

\* Lines 33-40: the sacks are copied and sorted; sack_tops takes the first
\* item of each from a clone of the iterators, which are left at their start.
SortSacks ==
    /\ pc3 = "start"
    /\ \A k \in 1 .. Len(sacks_arg) : Len(sacks_arg[k]) > 0
    /\ sacks' = [k \in 1 .. Len(sacks_arg) |-> sort(sacks_arg[k])]
    /\ sack_iters' = [k \in 1 .. Len(sacks_arg) |-> 0]
    /\ sack_tops' = [k \in 1 .. Len(sacks_arg) |-> sort(sacks_arg[k])[1]]
    /\ pc3' = "loop"
    /\ UNCHANGED <<sacks_arg, ret3>>
    /\ UNCHANGED rest3

\* Line 65: the tops are all the same item, which is returned.
ReturnCommon ==
    /\ pc3 = "loop"
    /\ CompareTops(sack_tops).ok
    /\ ret3' = CompareTops(sack_tops).item
    /\ pc3' = "done"
    /\ UNCHANGED <<sacks_arg, sacks, sack_iters, sack_tops>>
    /\ UNCHANGED rest3

\* Lines 69-71: the iterator of the sack with the least top yields an item.
NextOfLeast ==
    /\ pc3 = "loop"
    /\ ~CompareTops(sack_tops).ok
    /\ LET i == CompareTops(sack_tops).i + 1
       IN /\ sack_iters[i] < Len(sacks[i])
          /\ sack_tops' = [sack_tops EXCEPT ![i] = sacks[i][sack_iters[i] + 1]]
          /\ sack_iters' = [sack_iters EXCEPT ![i] = sack_iters[i] + 1]
    /\ UNCHANGED <<pc3, sacks_arg, sacks, ret3>>
    /\ UNCHANGED rest3

\* Lines 72-82: that iterator is exhausted; break, and unreachable!() panics.
NoCommonItem ==
    /\ pc3 = "loop"
    /\ ~CompareTops(sack_tops).ok
    /\ sack_iters[CompareTops(sack_tops).i + 1] = Len(sacks[CompareTops(sack_tops).i + 1])
    /\ ret3' = PANIC
    /\ pc3' = "done"
    /\ UNCHANGED <<sacks_arg, sacks, sack_iters, sack_tops>>
    /\ UNCHANGED rest3

\* The items of the model, and the sacks made of them.
Items == ByteA .. (ByteA + NumItems - 1)
Sacks == UNION {[1 .. n -> Items] : n \in 0 .. MaxSack}

\* Lines 160 and 165: main calls get_common_item with two or three sacks.
Init3 ==
    /\ pc3 = "start"
    /\ sacks_arg \in [1 .. 2 -> Sacks] \cup [1 .. 3 -> Sacks]
    /\ sacks = <<>>
    /\ sack_iters = <<>>
    /\ sack_tops = <<>>
    /\ ret3 = None
    /\ Idle2 /\ Idle4 /\ Idle5 /\ Idle6 /\ Idle7 /\ Idle8

Next3 == TopOfEmptySack \/ SortSacks \/ ReturnCommon \/ NextOfLeast \/ NoCommonItem

SpecSacks == Init3 /\ [][Next3]_vars

(***************************************************************************)
(* Day 05: Command::from_str and simulate, one action per command line.    *)
(* A VecDeque is the sequence of its items front to back: the top crate of *)
(* a stack is its last item.                                               *)
(***************************************************************************)

\* b'A'
ByteUpperA == 65

\* Lines 123-127: the Command of the line `move n from a to b`. The stack
\* numbers are usize: 0 - 1 overflows and panics, and the fields from there
\* on are never made (PANIC stands for them).
ParsePanics(a, b) == a = 0 \/ b = 0
ParsedCommand(n, a, b) ==
    [num_moved |-> n,
     stack_from |-> IF a = 0 THEN PANIC ELSE a - 1,
     stack_to |-> IF a = 0 \/ b = 0 THEN PANIC ELSE b - 1]

\* Lines 141-142: indexing panics past the last stack, and split_off (or the
\* subtraction before it) when more crates are asked for than the stack has.
SplitPanics(ss, c) ==
    IF c.stack_from >= Len(ss) THEN TRUE
    ELSE c.num_moved > Len(ss[c.stack_from + 1])

\* Lines 138-148: whether the line `move n from a to b` ends in a panic.
LinePanics(ss, n, a, b) ==
    IF ParsePanics(a, b) THEN TRUE
    ELSE IF SplitPanics(ss, ParsedCommand(n, a, b)) THEN TRUE
    ELSE ParsedCommand(n, a, b).stack_to >= Len(ss)

\* Line 142: split_off(at) keeps the first `at` items and returns the rest.
split_off_kept(stack, at) == SubSeq(stack, 1, at)
split_off(stack, at) == SubSeq(stack, at + 1, Len(stack))

\* Line 145: slice::reverse
reverse(temp) == [k \in 1 .. Len(temp) |-> temp[Len(temp) + 1 - k]]

\* A plausible slip: the crates are moved as they are in both modes.
Carried_asis(temp, rev) == temp

\* Lines 144-146: what is appended to the target stack.
Carried(temp, rev) == IF rev THEN reverse(temp) ELSE temp

\* Lines 141-149 for a command that does not panic.
Moved(ss, c, rev) ==
    LET from == c.stack_from + 1
        to == c.stack_to + 1
        at == Len(ss[from]) - c.num_moved
        split == [ss EXCEPT ![from] = split_off_kept(ss[from], at)]
    IN [split EXCEPT ![to] = split[to] \o Carried(split_off(ss[from], at), rev)]

\* The command lines of the model: stack numbers are one digit.
CommandLines == (0 .. NumCrates) \X (0 .. MaxStacks) \X (0 .. MaxStacks)

\* Lines 138-149: one line is parsed and applied.
MoveCrates ==
    /\ pc5 = "run"
    /\ \E l \in CommandLines :
          /\ ~LinePanics(stacks, l[1], l[2], l[3])
          /\ command' = ParsedCommand(l[1], l[2], l[3])
          /\ stacks' = Moved(stacks, ParsedCommand(l[1], l[2], l[3]), REVERSE)
    /\ UNCHANGED <<pc5, REVERSE, ret5>>
    /\ UNCHANGED rest5

\* Lines 126-127, 141-142, 148: the line names stack 0 or a stack that does
\* not exist, or moves more crates than the stack holds; the call panics.
MovePanics ==
    /\ pc5 = "run"
    /\ \E l \in CommandLines :
          /\ LinePanics(stacks, l[1], l[2], l[3])
          /\ command' = ParsedCommand(l[1], l[2], l[3])
    /\ pc5' = "panicked"
    /\ ret5' = <<PANIC>>
    /\ UNCHANGED <<REVERSE, stacks>>
    /\ UNCHANGED rest5

\* Line 151, collected by the caller: the back of every stack.
TopCrates ==
    /\ pc5 = "run"
    /\ \A k \in 1 .. Len(stacks) : Len(stacks[k]) > 0
    /\ ret5' = [k \in 1 .. Len(stacks) |-> stacks[k][Len(stacks[k])]]
    /\ pc5' = "done"
    /\ UNCHANGED <<REVERSE, stacks, command>>
    /\ UNCHANGED rest5

\* Line 151 with an empty stack: back() is None and unwrap panics.
TopOfEmptyStack ==
    /\ pc5 = "run"
    /\ \E k \in 1 .. Len(stacks) : Len(stacks[k]) = 0
    /\ ret5' = <<PANIC>>
    /\ pc5' = "done"
    /\ UNCHANGED <<REVERSE, stacks, command>>
    /\ UNCHANGED rest5

\* The crates of the model, each on one stack, in any order.
Crates == ByteUpperA .. (ByteUpperA + NumCrates - 1)
CrateOrders == {p \in [1 .. NumCrates -> Crates] : \A k, l \in 1 .. NumCrates : p[k] = p[l] => k = l}
RECURSIVE CratesOn(_, _, _, _)
CratesOn(p, where, k, n) ==
    IF n = 0 THEN <<>>
    ELSE CratesOn(p, where, k, n - 1) \o (IF where[p[n]] = k THEN <<p[n]>> ELSE <<>>)
InitialStacks ==
    UNION {{[k \in 1 .. n |-> CratesOn(x[1], x[2], k, NumCrates)] :
               x \in CrateOrders \X [Crates -> 1 .. n]} : n \in 1 .. MaxStacks}

\* Lines 187-188: main calls simulate in one of the two modes.
Init5 ==
    /\ pc5 = "run"
    /\ REVERSE \in BOOLEAN
    /\ stacks \in InitialStacks
    /\ command = [num_moved |-> 0, stack_from |-> 0, stack_to |-> 0]
    /\ ret5 = <<>>
    /\ Idle2 /\ Idle3 /\ Idle4 /\ Idle6 /\ Idle7 /\ Idle8

Next5 == MoveCrates \/ MovePanics \/ TopCrates \/ TopOfEmptyStack

SpecCrates == Init5 /\ [][Next5]_vars

(***************************************************************************)
(* Day 07: total_size and smallest_deletable_dir, one action per line.     *)
(* dir_sizes is a Vec used as a stack: its last item is the directory the  *)
(* listing is in.                                                          *)
(***************************************************************************)

\* Lines 83, 140, 142
MAX_SIZE == 100000
TOTAL_SPACE == 70000000
FREE_SPACE == 30000000

\* Lines 38-42: what a line parses to; Err stands for the lines flat_map
\* drops (ls, dir).
ChangeDirDown == [kind |-> "ChangeDirDown", size |-> 0]
ChangeDirUp == [kind |-> "ChangeDirUp", size |-> 0]
File(size) == [kind |-> "File", size |-> size]
Err == [kind |-> "Err", size |-> 0]

\* The file sizes of the model.
FileSizes == {50000, 20000000, 25000000}

\* Vec::pop and the Vec with its last item replaced.
Popped(v) == SubSeq(v, 1, Len(v) - 1)
WithLast(v, x) == [v EXCEPT ![Len(v)] = x]

\* Lines 112-128: the scan over dir_sizes.iter().rev() and its sum. The
\* closure returns None at the first size above MAX_SIZE, which ends the
\* iteration.
RECURSIVE ScanSmallSum(_, _, _)
ScanSmallSum(ds, k, acc) ==
    IF k = 0 THEN 0
    ELSE IF acc + ds[k] <= MAX_SIZE
         THEN (acc + ds[k]) + ScanSmallSum(ds, k - 1, acc + ds[k])
         ELSE 0

\* A plausible slip: the directories still open at the end are forgotten.
OpenDirsSum_none(ds) == 0

OpenDirsSum(ds) == ScanSmallSum(ds, Len(ds), 0)

\* Lines 166-170: the scan that extends all_dir_sizes.
RECURSIVE ScanAll(_, _, _)
ScanAll(ds, k, acc) ==
    IF k = 0 THEN <<>>
    ELSE <<acc + ds[k]>> \o ScanAll(ds, k - 1, acc + ds[k])

\* A plausible slip: the directory must be larger than the goal.
Deletable_larger(size, goal_size) == size > goal_size

\* Line 183: the filter.
Deletable(size, goal_size) == size >= goal_size

\* Line 177 on u64. With overflow checks a subtraction below zero panics
\* (None here). Without them it wraps modulo 2^64: above TOTAL_SPACE the two
\* wraps cancel and leave total_size - (TOTAL_SPACE - FREE_SPACE); below
\* TOTAL_SPACE - FREE_SPACE the result lies within TOTAL_SPACE of 2^64,
\* above every size there is (TooLarge here).
TooLarge == -3
goal_size(total_size, checks) ==
    IF total_size > TOTAL_SPACE
    THEN IF checks THEN None ELSE total_size - (TOTAL_SPACE - FREE_SPACE)
    ELSE IF TOTAL_SPACE - total_size > FREE_SPACE
         THEN IF checks THEN None ELSE TooLarge
         ELSE FREE_SPACE - (TOTAL_SPACE - total_size)

\* Lines 172-186; the unwraps panic on None.
SmallestDeletable(all, checks) ==
    IF Len(all) = 0 THEN PANIC
    ELSE LET goal == goal_size(all[Len(all)], checks)
             fits == {k \in 1 .. Len(all) : goal # TooLarge /\ Deletable(all[k], goal)}
         IN IF goal = None THEN PANIC
            ELSE IF fits = {} THEN PANIC
            ELSE all[CHOOSE k \in fits : \A l \in fits : all[k] <= all[l]]

\* Lines 93, 94 and 152: `cd a` pushes an empty directory.
DirDown ==
    /\ pc7 = "run"
    /\ Len(listings) < MaxListings
    /\ listings' = Append(listings, ChangeDirDown)
    /\ dir_sizes' = Append(dir_sizes, 0)
    /\ UNCHANGED <<pc7, mode7, sum, all_dir_sizes, ret7>>
    /\ UNCHANGED rest7

\* Lines 95-108 and 153-161: `cd ..` pops the directory, adds its size to
\* the one above and sums or records it.
DirUp ==
    /\ pc7 = "run"
    /\ Len(listings) < MaxListings
    /\ Len(dir_sizes) >= 2
    /\ listings' = Append(listings, ChangeDirUp)
    /\ LET size == dir_sizes[Len(dir_sizes)]
       IN /\ dir_sizes' = WithLast(Popped(dir_sizes), Popped(dir_sizes)[Len(dir_sizes) - 1] + size)
          /\ sum' = IF mode7 = "SmallDirSize" /\ size <= MAX_SIZE THEN sum + size ELSE sum
          /\ all_dir_sizes' = IF mode7 = "FreeSpace" THEN Append(all_dir_sizes, size)
                              ELSE all_dir_sizes
    /\ UNCHANGED <<pc7, mode7, ret7>>
    /\ UNCHANGED rest7

\* Lines 110 and 162: a file adds its size to the directory the listing is in.
FileListed ==
    /\ pc7 = "run"
    /\ Len(listings) < MaxListings
    /\ Len(dir_sizes) >= 1
    /\ \E size \in FileSizes :
          /\ listings' = Append(listings, File(size))
          /\ dir_sizes' = WithLast(dir_sizes, dir_sizes[Len(dir_sizes)] + size)
    /\ UNCHANGED <<pc7, mode7, sum, all_dir_sizes, ret7>>
    /\ UNCHANGED rest7

\* Lines 91 and 150: flat_map drops a line that is no listing.
LineDropped ==
    /\ pc7 = "run"
    /\ Len(listings) < MaxListings
    /\ listings' = Append(listings, Err)
    /\ UNCHANGED <<pc7, mode7, dir_sizes, sum, all_dir_sizes, ret7>>
    /\ UNCHANGED rest7

\* Lines 97-100, 110, 154-156, 162: `cd ..` with no directory above, or a
\* file with no directory at all: the unwrap panics.
NoDirectory ==
    /\ pc7 = "run"
    /\ Len(listings) < MaxListings
    /\ \/ /\ Len(dir_sizes) < 2
          /\ listings' = Append(listings, ChangeDirUp)
       \/ /\ Len(dir_sizes) < 1
          /\ \E size \in FileSizes : listings' = Append(listings, File(size))
    /\ ret7' = PANIC
    /\ pc7' = "done"
    /\ UNCHANGED <<mode7, dir_sizes, sum, all_dir_sizes>>
    /\ UNCHANGED rest7

\* Lines 112-135: the lines are exhausted; total_size adds the directories
\* still open and returns.
TotalSizeEnd ==
    /\ pc7 = "run"
    /\ mode7 = "SmallDirSize"
    /\ sum' = sum + OpenDirsSum(dir_sizes)
    /\ ret7' = sum + OpenDirsSum(dir_sizes)
    /\ pc7' = "done"
    /\ UNCHANGED <<mode7, listings, dir_sizes, all_dir_sizes>>
    /\ UNCHANGED rest7

\* What smallest_deletable_dir leaves and returns.
DeletableResult(all) ==
    /\ all_dir_sizes' = all
    /\ \E checks \in BOOLEAN : ret7' = SmallestDeletable(all, checks)

\* Lines 166-186: the lines are exhausted; smallest_deletable_dir adds the
\* directories still open and picks the smallest that frees enough.
SmallestDeletableEnd ==
    /\ pc7 = "run"
    /\ mode7 = "FreeSpace"
    /\ DeletableResult(all_dir_sizes \o ScanAll(dir_sizes, Len(dir_sizes), 0))
    /\ pc7' = "done"
    /\ UNCHANGED <<mode7, listings, dir_sizes, sum>>
    /\ UNCHANGED rest7

\* Lines 198-201: main calls one of the two functions.
Init7 ==
    /\ pc7 = "run"
    /\ mode7 \in {"SmallDirSize", "FreeSpace"}
    /\ listings = <<>>
    /\ dir_sizes = <<>>
    /\ sum = 0
    /\ all_dir_sizes = <<>>
    /\ ret7 = None
    /\ Idle2 /\ Idle3 /\ Idle4 /\ Idle5 /\ Idle6 /\ Idle8

Next7 ==
    DirDown \/ DirUp \/ FileListed \/ LineDropped \/ NoDirectory
        \/ TotalSizeEnd \/ SmallestDeletableEnd

SpecDirs == Init7 /\ [][Next7]_vars

(***************************************************************************)
(* Reference notions the properties are stated with.                       *)
(***************************************************************************)

\* The symbols from..to of s are pairwise distinct.
Distinct(s, from, to) == \A a, b \in from .. to : a # b => s[a] # s[b]

\* The ends e of the windows of WINDOW_SIZE symbols of string, 1-based.
WindowEnds == WINDOW_SIZE .. Len(string)
DistinctWindowAt(e) == Distinct(string, e - WINDOW_SIZE + 1, e)
HasDistinctWindow == \E e \in WindowEnds : DistinctWindowAt(e)

Directions == {"Above", "Left", "Right", "Below"}
Cells(g) == 0 .. (GridLen(g) - 1)
RowCount(g) == GridLen(g) \div g.width
RowOf(g, i) == i \div g.width
ColOf(g, i) == i % g.width

\* How many cells lie between cell i and the grid edge in direction d.
Room(g, i, d) ==
    CASE d = "Above" -> RowOf(g, i)
      [] d = "Left" -> ColOf(g, i)
      [] d = "Right" -> g.width - 1 - ColOf(g, i)
      [] d = "Below" -> RowCount(g) - 1 - RowOf(g, i)

\* The cell k steps from cell i in direction d, by row and column.
Toward(g, i, d, k) ==
    CASE d = "Above" -> ((RowOf(g, i) - k) * g.width) + ColOf(g, i)
      [] d = "Left" -> (RowOf(g, i) * g.width) + (ColOf(g, i) - k)
      [] d = "Right" -> (RowOf(g, i) * g.width) + (ColOf(g, i) + k)
      [] d = "Below" -> ((RowOf(g, i) + k) * g.width) + ColOf(g, i)

\* The steps at which a cell at least as high as cell i stands in direction d.
Blockers(g, i, d) ==
    {k \in 1 .. Room(g, i, d) : At(g.heights, Toward(g, i, d, k)) >= At(g.heights, i)}

Least(S) == CHOOSE k \in S : \A l \in S : k <= l

\* The naive outward scan.
NaiveView(g, i, d) ==
    IF Blockers(g, i, d) = {} THEN Room(g, i, d) ELSE Least(Blockers(g, i, d))

NaiveScore(g, i) ==
    NaiveView(g, i, "Above") * NaiveView(g, i, "Below")
        * NaiveView(g, i, "Left") * NaiveView(g, i, "Right")

RefVisible(g, i) == \E d \in Directions : Blockers(g, i, d) = {}
OnEdge(g, i) == \E d \in Directions : Room(g, i, d) = 0

\* The distance highest_scenic_score computed for cell i in direction d.
ViewOf(i, d) == in_dir(At(views, i), d).distance

\* The lines of a text as lines() cuts it, by the place of their first byte.
LineStarts(s) ==
    {k \in 1 .. Len(s) : k = 1 \/ s[k - 1] = ByteLF}
LineLen(s, st) ==
    Least({k \in st .. (Len(s) + 1) : k = Len(s) + 1 \/ s[k] = ByteLF}) - st
Ragged(s) == \E a, b \in LineStarts(s) : LineLen(s, a) # LineLen(s, b)
IsDigit(c) == c >= 48 /\ c <= 57
Malformed(s) ==
    \/ Len(s) = 0
    \/ Ragged(s)
    \/ \E k \in 1 .. Len(s) : ~IsDigit(s[k]) /\ s[k] # ByteLF

(***************************************************************************)
(* Properties.                                                             *)
(***************************************************************************)

\* C1: when the stream holds a window of WINDOW_SIZE pairwise distinct
\* symbols, find_start_of_packet returns (it never stops short of a result)
\* the 1-based end i of the first such window: the WINDOW_SIZE symbols ending
\* at i are pairwise distinct and no window ending earlier is.
MarkerIsFirstDistinctWindow ==
    HasDistinctWindow =>
        /\ pc6 # "done" => ENABLED Next6
        /\ pc6 = "done" =>
            /\ ret6 \in WindowEnds
            /\ DistinctWindowAt(ret6)
            /\ \A e \in WindowEnds : e < ret6 => ~DistinctWindowAt(e)

\* C1 witness: a marker found after the window slid at least twice.
MarkerFoundAfterSlides ==
    /\ pc6 = "done"
    /\ WINDOW_SIZE >= 2
    /\ ret6 >= WINDOW_SIZE + 2

\* C2: for the WINDOW_SIZE symbols last consumed, the XOR of their masks has
\* WINDOW_SIZE bits set exactly when the symbols are pairwise distinct.
ParityTestIsDistinctness ==
    (pc6 \in {"test", "next", "done"} /\ consumed >= WINDOW_SIZE) =>
        (IsMarkerChecksum(ReduceXor(Masks(string, consumed - WINDOW_SIZE + 1, consumed)),
                          WINDOW_SIZE)
            <=> DistinctWindowAt(consumed))

\* C2 witness: a window of three with a doubled symbol under test; the pair
\* cancels and one bit is left.
CancelledPairTested ==
    /\ pc6 = "test"
    /\ WINDOW_SIZE = 3
    /\ consumed > WINDOW_SIZE
    /\ ~DistinctWindowAt(consumed)
    /\ count_ones(checksum) = 1

\* C6: when no window of WINDOW_SIZE symbols is pairwise distinct (the empty
\* stream and streams shorter than WINDOW_SIZE included), the call never
\* returns an index: it runs on until the stream is exhausted and ends there
\* in the error outcome.
NoWindowEndsInError ==
    ~HasDistinctWindow =>
        /\ ret6 \in {None, PANIC}
        /\ pc6 # "done" => ENABLED Next6
        /\ pc6 = "done" => (ret6 = PANIC /\ consumed = Len(string))

\* C6 witness: the scan slid over a stream longer than the window and failed.
ScanExhausted ==
    /\ pc6 = "done"
    /\ ret6 = PANIC
    /\ Len(string) > WINDOW_SIZE
    /\ enum_i >= 1

EdgeCellsCountedVisible ==
    pc8 = "visible_done" =>
        /\ ret_visible # PANIC
        /\ \A i \in Cells(tree_grid) : OnEdge(tree_grid, i) => At(first_pass, i).f0
        /\ ret_visible >= Cardinality({i \in Cells(tree_grid) : OnEdge(tree_grid, i)})

\* C7 witness: three rows and three columns or more of trees of height 0, of
\* which exactly the edge is counted.
OnlyEdgeCounted ==
    /\ pc8 = "visible_done"
    /\ tree_grid.width >= 3
    /\ RowCount(tree_grid) >= 3
    /\ \A i \in Cells(tree_grid) : At(tree_grid.heights, i) = 0
    /\ ret_visible = Cardinality({i \in Cells(tree_grid) : OnEdge(tree_grid, i)})

ViewRecurrenceAsStated ==
    pc8 = "scenic_done" =>
        \A i \in Cells(tree_grid) : \A d \in Directions :
            IF Room(tree_grid, i, d) = 0 THEN ViewOf(i, d) = 0
            ELSE IF At(tree_grid.heights, Toward(tree_grid, i, d, 1)) >= At(tree_grid.heights, i)
                 THEN ViewOf(i, d) = 1
            ELSE ViewOf(i, d) = ViewOf(Toward(tree_grid, i, d, 1), d) + 1

\* Where the view of cell n in direction d ends.
ViewEnd(n, d) == Toward(tree_grid, n, d, ViewOf(n, d))

\* C5 amended: view(i, D) is 0 without a neighbour and 1 when the neighbour
\* is at least as high; otherwise it is at least view(neighbour, D) + 1, and
\* equal to it exactly when the neighbour's view ends at the last cell before
\* the grid edge or at a cell at least as high as cell i.
ViewRecurrenceChained ==
    pc8 = "scenic_done" =>
        \A i \in Cells(tree_grid) : \A d \in Directions :
            IF Room(tree_grid, i, d) = 0 THEN ViewOf(i, d) = 0
            ELSE IF At(tree_grid.heights, Toward(tree_grid, i, d, 1)) >= At(tree_grid.heights, i)
                 THEN ViewOf(i, d) = 1
            ELSE /\ ViewOf(i, d) >= ViewOf(Toward(tree_grid, i, d, 1), d) + 1
                 /\ (ViewOf(i, d) = ViewOf(Toward(tree_grid, i, d, 1), d) + 1)
                        <=> \/ Room(tree_grid, ViewEnd(Toward(tree_grid, i, d, 1), d), d) = 0
                            \/ At(tree_grid.heights, ViewEnd(Toward(tree_grid, i, d, 1), d))
                                    >= At(tree_grid.heights, i)

\* C5 witness: a tree that sees further than its lower neighbour's view + 1.
SeesPastNeighboursBlocker ==
    /\ pc8 = "scenic_done"
    /\ \E i \in Cells(tree_grid) : \E d \in Directions :
        /\ Room(tree_grid, i, d) > 0
        /\ At(tree_grid.heights, Toward(tree_grid, i, d, 1)) < At(tree_grid.heights, i)
        /\ ViewOf(i, d) > ViewOf(Toward(tree_grid, i, d, 1), d) + 1

\* C8: highest_scenic_score ends normally; a cell with no cell beyond it in a
\* direction has view distance 0 in that direction, so every edge cell has
\* scenic score 0, and so has a grid of one cell.
EdgeViewsAreZero ==
    pc8 = "scenic_done" =>
        /\ ret_score # PANIC
        /\ \A i \in Cells(tree_grid) : \A d \in Directions :
            Room(tree_grid, i, d) = 0 => in_dir(At(views, i), d) = EdgeView
        /\ \A i \in Cells(tree_grid) :
            OnEdge(tree_grid, i) => ScenicScore(At(views, i)) = 0
        /\ GridLen(tree_grid) = 1 => ret_score = 0

\* C8 witness: two rows and two columns or more; the bottom corners, which the
\* reverse sweep's corner test never catches, have their outward views at 0,
\* and so has the first cell of the second row to its left, where the cell
\* before it in the vector is at least as high.
BottomCornersAtZero ==
    /\ pc8 = "scenic_done"
    /\ tree_grid.width >= 2
    /\ RowCount(tree_grid) >= 2
    /\ At(views, GridLen(tree_grid) - 1).right = EdgeView
    /\ At(views, GridLen(tree_grid) - 1).below = EdgeView
    /\ At(views, GridLen(tree_grid) - tree_grid.width).below = EdgeView
    /\ At(views, tree_grid.width).left = EdgeView
    /\ At(tree_grid.heights, tree_grid.width - 1) >= At(tree_grid.heights, tree_grid.width)

\* C9: in a grid of three or more rows and columns whose cells all have the
\* same height, every cell off the edge has view distance 1 in each direction
\* and scenic score 1, and highest_scenic_score returns 1.
UniformGridScoresOne ==
    (/\ pc8 = "scenic_done"
     /\ tree_grid.width >= 3
     /\ RowCount(tree_grid) >= 3
     /\ \A i \in Cells(tree_grid) : At(tree_grid.heights, i) = At(tree_grid.heights, 0)) =>
        /\ ret_score = 1
        /\ \A i \in Cells(tree_grid) : ~OnEdge(tree_grid, i) =>
            /\ \A d \in Directions : ViewOf(i, d) = 1
            /\ ScenicScore(At(views, i)) = 1

\* C9 witness: the 3 x 3 grid of height 5, scored.
ThreeByThreeOfFive ==
    /\ pc8 = "scenic_done"
    /\ tree_grid.width = 3
    /\ GridLen(tree_grid) = 9
    /\ \A i \in Cells(tree_grid) : At(tree_grid.heights, i) = 5
    /\ ret_score = 1

\* C10 as stated: a text that is empty, has rows of unequal length or holds a
\* byte other than a digit or a line feed ends the parse in an error; no
\* TreeGrid comes of it and neither mode runs.
MalformedTextIsRejected ==
    Malformed(input) => pc8 \in {"parse", "err", "panic"}

\* How often the letter c stands among the symbols from..to of string.
Occurrences(c, from, to) == Cardinality({k \in from .. to : string[k] = c})

\* The u32 whose bit c - b'a' is set exactly for the letters c that stand an
\* odd number of times among the symbols from..to of string.
RECURSIVE OddLetterBits(_, _, _)
OddLetterBits(c, from, to) ==
    IF c >= ByteA + 26 THEN 0
    ELSE ((Occurrences(c, from, to) % 2) * Pow2(c - ByteA))
            + OddLetterBits(c + 1, from, to)

\* C18: on a stream of at least WINDOW_SIZE symbols, after the initial fill
\* and after every slide the window queue holds the masks of exactly the
\* WINDOW_SIZE most recently consumed symbols in stream order (its length is
\* WINDOW_SIZE, not WINDOW_SIZE + 1), and the running checksum is the XOR of
\* exactly those masks: it has the bit of every letter that stands an odd
\* number of times among them and no other bit.
WindowHoldsLastSymbols ==
    (pc6 \in {"test", "next", "done"} /\ Len(string) >= WINDOW_SIZE) =>
        /\ consumed >= WINDOW_SIZE
        /\ Len(window) = WINDOW_SIZE
        /\ \A k \in 1 .. WINDOW_SIZE :
              window[k] = Pow2(string[consumed - WINDOW_SIZE + k] - ByteA)
        /\ checksum = OddLetterBits(ByteA, consumed - WINDOW_SIZE + 1, consumed)

\* C18 witness: the window of three slid at least twice and holds a doubled
\* symbol, whose mask has cancelled in the checksum.
WindowSlidTwice ==
    /\ pc6 = "test"
    /\ WINDOW_SIZE = 3
    /\ enum_i >= 2
    /\ window[1] = window[3]
    /\ checksum = window[2]

\* C19: in highest_scenic_score on a rectangular grid no read of a partial
\* result fails: every views[j].in_dir(D) that find_view_distance reads for
\* a cell is Some when it is read, j is a cell of the grid in the row (Left,
\* Right) or the column (Above, Below) of that cell, and it was swept before
\* the cell: it lies before it for Above and Left, after it for Right and
\* Below.
ReadsAreComputedAndInLine ==
    /\ ret_score # PANIC
    /\ \A r \in reads :
          /\ r.some
          /\ r.j \in Cells(tree_grid)
          /\ r.direction \in {"Left", "Right"} => RowOf(tree_grid, r.j) = RowOf(tree_grid, r.idx)
          /\ r.direction \in {"Above", "Below"} => ColOf(tree_grid, r.j) = ColOf(tree_grid, r.idx)
          /\ r.direction \in {"Above", "Left"} => r.j < r.idx
          /\ r.direction \in {"Right", "Below"} => r.j > r.idx

\* C19 witness: one call read two partial results upward, the neighbour's
\* and the one of the tree that blocks the neighbour, two rows up.
ChainedReadAbove ==
    /\ pc8 = "forward"
    /\ tree_grid.width >= 2
    /\ \E r, q \in reads :
          /\ r.direction = "Above" /\ q.direction = "Above"
          /\ r.j = r.idx - tree_grid.width
          /\ q.j = q.idx - (2 * tree_grid.width)

\* C20: every ViewDistance stored for a cell i and a direction D has height
\* None exactly when no cell in direction D is as high as cell i, and then
\* its distance is the number of cells between i and the edge; otherwise its
\* height is the height of the cell `distance` steps from i in direction D,
\* that height is at least the height of i, and every nearer cell is lower.
ViewDistanceNamesItsBlocker ==
    \A i \in 0 .. (VecLen(views) - 1) : \A d \in Directions :
        LET v == in_dir(At(views, i), d)
        IN v # Unset =>
            /\ (v.height = None) <=> (Blockers(tree_grid, i, d) = {})
            /\ v.height = None => v.distance = Room(tree_grid, i, d)
            /\ v.height # None =>
                  /\ v.distance \in 1 .. Room(tree_grid, i, d)
                  /\ v.height = At(tree_grid.heights, Toward(tree_grid, i, d, v.distance))
                  /\ v.height >= At(tree_grid.heights, i)
                  /\ \A k \in 1 .. (v.distance - 1) :
                        At(tree_grid.heights, Toward(tree_grid, i, d, k))
                            < At(tree_grid.heights, i)

\* C20 witness: a view to the right that ends three cells away at a higher
\* tree, over two lower ones.
BlockerThreeCellsRight ==
    /\ pc8 = "reverse"
    /\ \E i \in 0 .. (VecLen(views) - 1) :
          /\ At(views, i).right # Unset
          /\ At(views, i).right.distance = 3
          /\ At(views, i).right.height # None
          /\ At(views, i).right.height > At(tree_grid.heights, i)

\* C15: for p1, p2 in {0, 1, 2}, score_shape(p1, p2) is p2 + 1 plus the
\* outcome for player 2: 3 when the shapes are the same, 6 when p2 is the
\* shape after p1 (it beats p1), 0 when p1 is the shape after p2.
ShapeScoreIsShapePlusOutcome ==
    (score = "score_shape" /\ round_score # None /\ round[1] <= 2 /\ round[2] <= 2) =>
        LET p1 == round[1]
            p2 == round[2]
        IN /\ p1 = p2 => round_score = (p2 + 1) + 3
           /\ p2 = (p1 + 1) % 3 => round_score = (p2 + 1) + 6
           /\ p1 = (p2 + 1) % 3 => round_score = (p2 + 1) + 0
           /\ p1 = p2 \/ p2 = (p1 + 1) % 3 \/ p1 = (p2 + 1) % 3

\* C15 witness: rock against paper scored 8, in a sum of several lines.
PaperBeatsRock ==
    /\ score = "score_shape"
    /\ round = <<0, 1>>
    /\ round_score = 8
    /\ total_score > 8

\* The outcome of a round for player 2 (0 lose, 1 tie, 2 win): each shape
\* beats the one before it.
Outcome(p1, p2) == IF p1 = p2 THEN 1 ELSE IF p2 = (p1 + 1) % 3 THEN 2 ELSE 0

\* The shapes that give player 2 the outcome o against p1.
ShapesFor(p1, o) == {x \in 0 .. 2 : Outcome(p1, x) = o}
ShapeFor(p1, o) == CHOOSE x \in ShapesFor(p1, o) : TRUE

\* C16: for p1 in {0, 1, 2} and a wanted outcome o in {0, 1, 2},
\* score_win(p1, o) is 3 * o plus s + 1 for the one shape s that gives player
\* 2 that outcome against p1, which is what score_shape(p1, s) scores.
WinScoreIsShapeScore ==
    (score = "score_win" /\ round_score # None /\ round[1] <= 2 /\ round[2] <= 2) =>
        LET p1 == round[1]
            o == round[2]
        IN /\ Cardinality(ShapesFor(p1, o)) = 1
           /\ ShapeFor(p1, o) = (p1 + o + 2) % 3
           /\ round_score = (3 * o) + (ShapeFor(p1, o) + 1)
           /\ round_score = score_shape(p1, ShapeFor(p1, o))

\* C16 witness: scissors and a wanted win scored 7 (rock, 1, and the win, 6).
WinAgainstScissors ==
    /\ score = "score_win"
    /\ round = <<2, 2>>
    /\ round_score = 7
    /\ total_score > 7

\* The sections of a range.
Sections(range) == range[1] .. range[2]

\* C17: for ranges (a0, a1), (b0, b1) with a0 <= a1 and b0 <= b1,
\* overlaps_entirely is true exactly when every section of one range is a
\* section of the other, and it says the same of the two ranges swapped.
EntireOverlapIsContainment ==
    (/\ mode4 = "Entire"
     /\ assignment # <<>>
     /\ assignment[1][1] <= assignment[1][2]
     /\ assignment[2][1] <= assignment[2][2]) =>
        /\ overlapped <=> (\/ Sections(assignment[1]) \subseteq Sections(assignment[2])
                           \/ Sections(assignment[2]) \subseteq Sections(assignment[1]))
        /\ overlapped <=> overlaps_entirely(<<assignment[2], assignment[1]>>)

\* C17 witness: the second range holds the first and starts before it; the
\* line was counted.
SecondHoldsFirst ==
    /\ mode4 = "Entire"
    /\ assignment = <<<<2, 2>>, <<1, 2>>>>
    /\ overlapped
    /\ overlaps >= 1

\* The byte values that occur in a sack, and those that occur in every sack.
ItemsOf(sack) == {sack[k] : k \in 1 .. Len(sack)}
CommonItems == {c \in Items : \A k \in 1 .. Len(sacks_arg) : c \in ItemsOf(sacks_arg[k])}

\* C14: given NUM_SACKS non-empty sacks that share a byte value,
\* get_common_item returns the least byte value that occurs in every sack: a
\* function of the sets of values of the sacks alone, whatever the order and
\* the multiplicity of the bytes in them. On the way the iterator asked for
\* its next item is never exhausted, so the loop is not left by its break.
ReturnsLeastCommonItem ==
    ((\A k \in 1 .. Len(sacks_arg) : Len(sacks_arg[k]) > 0) /\ CommonItems # {}) =>
        /\ (pc3 = "loop" /\ ~CompareTops(sack_tops).ok) =>
              sack_iters[CompareTops(sack_tops).i + 1]
                  < Len(sacks[CompareTops(sack_tops).i + 1])
        /\ pc3 = "done" =>
            /\ ret3 \in CommonItems
            /\ \A c \in CommonItems : ret3 <= c

\* C14 witness: three unsorted sacks; the common item is not the least item
\* of the first sack, and an iterator went past its first item to reach it.
CommonItemBehindOthers ==
    /\ pc3 = "done"
    /\ Len(sacks_arg) = 3
    /\ ret3 = ByteA + 1
    /\ sacks_arg[1] = <<ByteA + 1, ByteA>>
    /\ sack_iters[1] = 2

\* The top n crates of a stack, bottom one first.
TopCratesOf(stack, n) == SubSeq(stack, Len(stack) - n + 1, Len(stack))

\* n crates moved one at a time from the top of one stack to the top of
\* another.
RECURSIVE OneAtATime(_, _, _, _)
OneAtATime(ss, n, from, to) ==
    IF n = 0 THEN ss
    ELSE OneAtATime([ss EXCEPT ![from] = SubSeq(ss[from], 1, Len(ss[from]) - 1),
                               ![to] = Append(ss[to], ss[from][Len(ss[from])])],
                    n - 1, from, to)

\* The command `move n from a to b` names two different stacks that exist
\* and n is not larger than the size of stack a.
Movable(ss, c) ==
    /\ c.stack_from \in 0 .. (Len(ss) - 1)
    /\ c.stack_to \in 0 .. (Len(ss) - 1)
    /\ c.stack_from # c.stack_to
    /\ c.num_moved <= Len(ss[c.stack_from + 1])

\* Stack a lost its top n crates, stack b gained exactly those on top, in
\* reversed order (as when moved one at a time) when rev and in unchanged
\* order otherwise, and every other stack is as it was.
MovedAsCommanded(ss, after, c, rev) ==
    LET from == c.stack_from + 1
        to == c.stack_to + 1
        n == c.num_moved
    IN /\ Len(after) = Len(ss)
       /\ after[from] = SubSeq(ss[from], 1, Len(ss[from]) - n)
       /\ Len(after[to]) = Len(ss[to]) + n
       /\ SubSeq(after[to], 1, Len(ss[to])) = ss[to]
       /\ \A k \in 1 .. n :
             after[to][Len(ss[to]) + k] =
                 IF rev THEN ss[from][Len(ss[from]) + 1 - k]
                 ELSE TopCratesOf(ss[from], n)[k]
       /\ rev => after = OneAtATime(ss, n, from, to)
       /\ \A k \in 1 .. Len(ss) : k \notin {from, to} => after[k] = ss[k]

\* Every movable command is applied, and applied as commanded.
EveryMoveAsCommanded ==
    /\ (pc5 = "run" /\ pc5' = "panicked") => ~Movable(stacks, command')
    /\ (pc5 = "run" /\ pc5' = "run" /\ Movable(stacks, command')) =>
          MovedAsCommanded(stacks, stacks', command', REVERSE)

\* The result is the top crate of each stack in stack order.
ResultIsTops(ss, result) ==
    /\ result # <<PANIC>>
    /\ Len(result) = Len(ss)
    /\ \A k \in 1 .. Len(ss) : Len(ss[k]) > 0 /\ result[k] = ss[k][Len(ss[k])]

\* C11 as stated: every command `move n from a to b` with a # b and n not
\* larger than the size of stack a is applied as commanded, and the result
\* is the top crate of each stack in stack order.
MovesThenTopOfEachStack ==
    [][/\ EveryMoveAsCommanded
       /\ (pc5 = "run" /\ pc5' = "done") => ResultIsTops(stacks, ret5')]_vars

\* C11 as amended: every such command is applied as commanded; the result is
\* the top crate of each stack in stack order when no stack is empty at the
\* end, and taking the result panics when some stack is empty.
MovesThenTopsUnlessEmptyStack ==
    [][/\ EveryMoveAsCommanded
       /\ (pc5 = "run" /\ pc5' = "done") =>
             IF \A k \in 1 .. Len(stacks) : Len(stacks[k]) > 0
             THEN ResultIsTops(stacks, ret5')
             ELSE ret5' = <<PANIC>>]_vars

\* C11 witness: in reversing mode two crates went from the first of three
\* stacks onto the third, top crate first; that emptied the first stack and
\* the result could not be taken.
TwoCratesReversedOntoThird ==
    /\ pc5 = "done"
    /\ REVERSE
    /\ command = [num_moved |-> 2, stack_from |-> 0, stack_to |-> 2]
    /\ stacks = <<<<>>, <<>>, <<ByteUpperA + 2, ByteUpperA + 1, ByteUpperA>>>>
    /\ ret5 = <<PANIC>>

\* How many directories deep the listing is after its first k lines.
Depth(ls, k) ==
    Cardinality({q \in 1 .. k : ls[q] = ChangeDirDown})
        - Cardinality({q \in 1 .. k : ls[q] = ChangeDirUp})

\* The listing enters the root first and never leaves it: every file is
\* listed inside a directory and every `cd ..` has a directory to go up to.
\* Every `cd a` enters a directory of its own.
WellFormedListing(ls) ==
    \A k \in 1 .. Len(ls) :
        /\ ls[k].kind = "File" => Depth(ls, k - 1) >= 1
        /\ ls[k] = ChangeDirUp => Depth(ls, k - 1) >= 2

\* The directories, each named by the line that enters it, and the line
\* that leaves it (one past the end when it is still open at the end).
Dirs(ls) == {p \in 1 .. Len(ls) : ls[p] = ChangeDirDown}
LeftAt(ls, p) ==
    Least({q \in (p + 1) .. (Len(ls) + 1) :
              q = Len(ls) + 1 \/ (ls[q] = ChangeDirUp /\ Depth(ls, q) = Depth(ls, p) - 1)})

\* The total size of a directory: its files and those of the directories in it.
RECURSIVE SizeSum(_, _, _)
SizeSum(ls, from, to) ==
    IF from > to THEN 0 ELSE ls[from].size + SizeSum(ls, from + 1, to)
TotalOf(ls, p) == SizeSum(ls, p + 1, LeftAt(ls, p) - 1)

RECURSIVE SumOfTotals(_, _)
SumOfTotals(ls, D) ==
    IF D = {} THEN 0
    ELSE LET p == CHOOSE p \in D : TRUE
         IN TotalOf(ls, p) + SumOfTotals(ls, D \ {p})

RootTotal(ls) == TotalOf(ls, Least(Dirs(ls)))

\* The directories that free enough when deleted.
FreesEnough(ls) ==
    {p \in Dirs(ls) : TotalOf(ls, p) >= 30000000 - (70000000 - RootTotal(ls))}

====
